---- MODULE Spec2Model ----
(***************************************************************************)
(* ExpensesHelperBot: the spreadsheet balance calculation of               *)
(* excel_work.py (main, get_last_month, read_cells, the Drive download     *)
(* chain) and the /expenses slash command of bot.py.                       *)
(*                                                                         *)
(* Amounts are kept in thousandths ("mills") so that round(x, 2) is a real *)
(* conversion.  The numeric cell values used are multiples of 0.125, which *)
(* binary floating point represents exactly, so Python's sums, differences *)
(* and round-half-even are exact on them.                                  *)
(* Python strings that the code transforms (lower, strip, str) are         *)
(* sequences of one-character strings.                                     *)
(***************************************************************************)
EXTENDS Integers, Sequences, FiniteSets, TLC

\* ------------------------------------------------------------------ bounds
MaxUnits == 1          \* float body values are 0.125 * i, i in 1..MaxUnits
MaxInvocations == 2    \* /expenses commands handled in one behaviour

\* ------------------------------------------------------- program constants
FirstCol == 3
LastCol == 14
HeaderRow == 16

row_number == <<16, 24, 39, 52>>

Rows == {row_number[i] : i \in 1..Len(row_number)}
Cols == FirstCol..LastCol

\* the names excel_work.py binds at module level
excel_work_names ==
  {"authenticate_google_drive", "download_file_by_id", "get_file_for_editing",
   "save_file_back_to_drive", "update_file_content", "edit_file_workflow",
   "read_cells", "get_last_month", "main", "SCOPES"}

month_to_col ==
  [m \in {"jan", "fev", "feb", "mar", "abr", "apr", "mai", "may", "jun", "jul",
          "ago", "aug", "set", "sep", "out", "oct", "nov", "dez", "dec"} |->
     CASE m = "jan" -> 3
       [] m \in {"fev", "feb"} -> 4
       [] m = "mar" -> 5
       [] m \in {"abr", "apr"} -> 6
       [] m \in {"mai", "may"} -> 7
       [] m = "jun" -> 8
       [] m = "jul" -> 9
       [] m \in {"ago", "aug"} -> 10
       [] m \in {"set", "sep"} -> 11
       [] m \in {"out", "oct"} -> 12
       [] m = "nov" -> 13
       [] m \in {"dez", "dec"} -> 14]

\* ------------------------------------------------------------ cell values
\* what openpyxl's cell.value can be: None, an int, a float, a str
NoneCell == [t |-> "none", n |-> 0, s |-> <<>>]
IntCell(i) == [t |-> "int", n |-> i * 1000, s |-> <<>>]
FloatCell(m) == [t |-> "float", n |-> m, s |-> <<>>]
TextCell(chars) == [t |-> "text", n |-> 0, s |-> chars]

IsNumber(cell) == cell.t \in {"int", "float"}

\* Python truthiness of a cell value (if cell_value:)
Truthy(cell) ==
  CASE cell.t = "none" -> FALSE
    [] cell.t = "text" -> cell.s # <<>>
    [] OTHER -> cell.n # 0

\* ------------------------------------------------------ string conversions
Whitespace == {" ", "\t", "\n"}

RECURSIVE LStrip(_)
LStrip(s) ==
  IF s # <<>> /\ Head(s) \in Whitespace THEN LStrip(Tail(s)) ELSE s

RECURSIVE RStrip(_)
RStrip(s) ==
  IF s # <<>> /\ s[Len(s)] \in Whitespace
  THEN RStrip(SubSeq(s, 1, Len(s) - 1))
  ELSE s

\* str.strip()
Strip(s) == RStrip(LStrip(s))

LowerChar(c) ==
  CASE c = "A" -> "a" [] c = "B" -> "b" [] c = "C" -> "c" [] c = "D" -> "d"
    [] c = "E" -> "e" [] c = "F" -> "f" [] c = "G" -> "g" [] c = "H" -> "h"
    [] c = "I" -> "i" [] c = "J" -> "j" [] c = "K" -> "k" [] c = "L" -> "l"
    [] c = "M" -> "m" [] c = "N" -> "n" [] c = "O" -> "o" [] c = "P" -> "p"
    [] c = "Q" -> "q" [] c = "R" -> "r" [] c = "S" -> "s" [] c = "T" -> "t"
    [] c = "U" -> "u" [] c = "V" -> "v" [] c = "W" -> "w" [] c = "X" -> "x"
    [] c = "Y" -> "y" [] c = "Z" -> "z" [] OTHER -> c

\* str.lower()
Lower(s) == [i \in 1..Len(s) |-> LowerChar(s[i])]

\* the str a sequence of characters spells (a dict key)
RECURSIVE Join(_)
Join(s) == IF s = <<>> THEN "" ELSE Head(s) \o Join(Tail(s))

DigitChar(d) ==
  CASE d = 0 -> "0" [] d = 1 -> "1" [] d = 2 -> "2" [] d = 3 -> "3"
    [] d = 4 -> "4" [] d = 5 -> "5" [] d = 6 -> "6" [] d = 7 -> "7"
    [] d = 8 -> "8" [] d = 9 -> "9"

RECURSIVE Digits(_)
Digits(n) ==
  IF n < 10 THEN <<DigitChar(n)>>
  ELSE Append(Digits(n \div 10), DigitChar(n % 10))

Abs(x) == IF x < 0 THEN -x ELSE x

\* str(int)
IntStr(i) == IF i < 0 THEN <<"-">> \o Digits(-i) ELSE Digits(i)

\* the fraction digits of repr(float): three digits, trailing zeros dropped,
\* at least one kept
RECURSIVE DropZeros(_)
DropZeros(s) ==
  IF Len(s) > 1 /\ s[Len(s)] = "0"
  THEN DropZeros(SubSeq(s, 1, Len(s) - 1))
  ELSE s

\* str(float) of a value given in mills
FloatStr(m) ==
  LET a == Abs(m)
      f == a % 1000
      frac == <<DigitChar(f \div 100), DigitChar((f \div 10) % 10),
                DigitChar(f % 10)>>
  IN (IF m < 0 THEN <<"-">> ELSE <<>>)
       \o Digits(a \div 1000) \o <<".">> \o DropZeros(frac)

\* str(cell_value) for a cell value that is not None
StrOf(cell) ==
  CASE cell.t = "int" -> IntStr(cell.n \div 1000)
    [] cell.t = "float" -> FloatStr(cell.n)
    [] cell.t = "text" -> cell.s
    [] OTHER -> <<"N", "o", "n", "e">>

\* round(x, 2) on mills: to the nearest hundredth, ties to even
Round2(x) ==
  LET q == x \div 10
      r == x % 10
  IN CASE r < 5 -> q * 10
       [] r > 5 -> (q + 1) * 10
       [] OTHER -> IF q % 2 = 0 THEN q * 10 ELSE (q + 1) * 10

\* --------------------------------------------------- remote file acquisition
\* the condition of Google Drive and of the local credentials
DriveStates == {"ok", "no_credentials", "network", "missing_file", "download_error"}

\* Python None / an unbound local is <<>>, a value v is <<v>>
LocalName == "expenses.xlsx"

\* authenticate_google_drive: TRUE when it raises
authenticate_google_drive(d) == d = "no_credentials"

\* service.files().get(fileId=...).execute(): TRUE when it raises
files_get_raises(d) == d \in {"network", "missing_file"}

\* the get_media / next_chunk loop: TRUE when it raises
next_chunk_raises(d) == d \in {"network", "download_error"}

\* download_file_by_id with a service passed in: the bool it returns
download_file_by_id(d) ==
  IF files_get_raises(d) \/ next_chunk_raises(d) THEN FALSE ELSE TRUE

\* get_file_for_editing: the local file name or None
get_file_for_editing(d) ==
  IF authenticate_google_drive(d) \/ files_get_raises(d) THEN <<>>
  ELSE IF download_file_by_id(d) THEN <<LocalName>> ELSE <<>>

\* edit_file_workflow: the local file name or None
edit_file_workflow(d) ==
  LET local_file_ == get_file_for_editing(d)
  IN IF local_file_ # <<>> THEN local_file_ ELSE <<>>

\* load_workbook(file_path): the exception it raises, "none" if it opens
load_workbook(file_path) == IF file_path = <<>> THEN "TypeError" ELSE "none"

\* ------------------------------------------------------ get_last_month
\* a header test that compares str(cell_value) without strip()
StopsScanNoStrip(cell) ==
  cell.t = "none" \/ StrOf(cell) = <<"0">>

\* the header test of get_last_month
StopsScan(cell) ==
  cell.t = "none" \/ Strip(StrOf(cell)) = <<"0">>

\* the for loop over range(3, 15): the value of col when the loop is left
RECURSIVE ScanLoop(_, _)
ScanLoop(sheet, col) ==
  IF StopsScan(sheet[<<HeaderRow, col>>]) THEN col
  ELSE IF col = LastCol THEN col
  ELSE ScanLoop(sheet, col + 1)

get_last_month(file_path, sheet) ==
  IF load_workbook(file_path) # "none"
  THEN [exc |-> load_workbook(file_path), col |-> 0, read |-> {}]
  ELSE LET c == ScanLoop(sheet, FirstCol)
       IN [exc |-> "none", col |-> c,
           read |-> {<<HeaderRow, k>> : k \in FirstCol..c}]

\* ----------------------------------------------------------- read_cells
\* the two nested loops; ri indexes row_number; st is [total, read, exc]
RECURSIVE SumLoop(_, _, _, _, _)
SumLoop(sheet, col, last_column, ri, st) ==
  IF col >= last_column THEN st
  ELSE IF ri > Len(row_number) THEN SumLoop(sheet, col + 1, last_column, 1, st)
  ELSE LET cell_value == sheet[<<row_number[ri], col>>]
           rd == st.read \cup {<<row_number[ri], col>>}
       IN IF ~Truthy(cell_value)
          THEN SumLoop(sheet, col, last_column, ri + 1, [st EXCEPT !.read = rd])
          ELSE IF ~IsNumber(cell_value)
          THEN [total |-> st.total, read |-> rd, exc |-> "TypeError"]
          ELSE SumLoop(sheet, col, last_column, ri + 1,
                       [st EXCEPT !.read = rd, !.total = @ + cell_value.n])

\* a read_cells whose column range is range(start_col, last_column + 1)
read_cellsInclusive(file_path, sheet, start_col_, last_column) ==
  IF load_workbook(file_path) # "none"
  THEN [total |-> 0, read |-> {}, exc |-> load_workbook(file_path)]
  ELSE IF start_col_ = <<>>
  THEN [total |-> 0, read |-> {}, exc |-> "TypeError"]
  ELSE SumLoop(sheet, start_col_[1], last_column + 1, 1,
               [total |-> 0, read |-> {}, exc |-> "none"])

\* start_col is <<>> (None) or <<c>>
read_cells(file_path, sheet, start_col_, last_column) ==
  IF load_workbook(file_path) # "none"
  THEN [total |-> 0, read |-> {}, exc |-> load_workbook(file_path)]
  ELSE IF start_col_ = <<>>
  THEN [total |-> 0, read |-> {}, exc |-> "TypeError"]
  ELSE SumLoop(sheet, start_col_[1], last_column, 1,
               [total |-> 0, read |-> {}, exc |-> "none"])

\* ------------------------------------------------------------- balance
\* the statements main prints after final_value
Statement(fv) ==
  IF fv > 0
  THEN <<[debtor |-> "Person 2", creditor |-> "Person 1", amount |-> fv]>>
  ELSE IF fv < 0
  THEN <<[debtor |-> "Person 1", creditor |-> "Person 2", amount |-> fv]>>
  ELSE <<>>

\* month_to_col.get(user_month)
MonthGet(key) ==
  IF key \in DOMAIN month_to_col THEN <<month_to_col[key]>> ELSE <<>>

\* getattr on the excel_work module
GetAttr(name) ==
  IF name \in excel_work_names THEN "none" ELSE "AttributeError"

\* --------------------------------------------------- the /expenses handler
\* the exception classes that "except Exception" catches
ExceptionClasses ==
  {"AttributeError", "TypeError", "KeyError", "UnboundLocalError", "FileNotFoundError"}

Event(i, ev, kind, detail) == [inv |-> i, ev |-> ev, kind |-> kind, detail |-> detail]

\* the try body of expenses: the call of excel_work.main_function(month) and,
\* when it returns, the follow-up that carries the result
TryBody(i, m) ==
  LET e == GetAttr("main_function")
  IN IF e # "none"
     THEN [exc |-> e, events |-> <<Event(i, "call", "raised", e)>>]
     ELSE [exc |-> "none",
           events |-> <<Event(i, "call", "returned", m),
                        Event(i, "followup", "result", m)>>]

\* an except clause that catches TypeError only
ExceptClauseTypeErrorOnly(i, e) ==
  IF e = "TypeError"
  THEN <<Event(i, "followup", "error", e)>>
  ELSE <<Event(i, "escape", "raised", e)>>

\* the except clause of expenses: what it sends for a caught exception e
ExceptClause(i, e) ==
  IF e \in ExceptionClasses
  THEN <<Event(i, "followup", "error", e)>>
  ELSE <<Event(i, "escape", "raised", e)>>

\* ------------------------------------------------------------- the inputs
Abc == <<"a", "b", "c">>

BodyValues ==
  {NoneCell, IntCell(5), TextCell(Abc)} \cup {FloatCell(125 * i) : i \in 1..MaxUnits}

\* what the first header cell after the filled ones holds, and the cells after it
StopTails ==
  {<<NoneCell, NoneCell>>, <<IntCell(0), NoneCell>>, <<IntCell(0), IntCell(50)>>,
   <<TextCell(<<"0">>), IntCell(50)>>, <<TextCell(<<" ", "0", " ">>), NoneCell>>}

\* the filled header cells after the first one
Fills == {IntCell(50), FloatCell(0)}

Filled(c, fill) == IF c = FirstCol THEN IntCell(100) ELSE fill

\* participant 1's sheet: k filled header cells, then stop, then tail
Sheet1(k, fill, st, body) ==
  [rc \in Rows \X Cols |->
     CASE rc[1] = 16 -> (IF rc[2] < FirstCol + k THEN Filled(rc[2], fill)
                         ELSE IF rc[2] = FirstCol + k THEN st[1] ELSE st[2])
       [] rc[1] = 24 -> body
       [] rc[1] = 39 -> NoneCell
       [] OTHER -> IF rc[2] = FirstCol THEN IntCell(20) ELSE IntCell(0)]

\* participant 2's sheet
Sheet2(body) ==
  [rc \in Rows \X Cols |->
     CASE rc[1] = 16 -> Filled(rc[2], IntCell(50))
       [] rc[1] = 24 -> body
       [] rc[1] = 39 -> NoneCell
       [] OTHER -> IF rc[2] = FirstCol THEN IntCell(20) ELSE IntCell(0)]

NumCols == LastCol - FirstCol + 1

Workbooks ==
  {<<Sheet1(k, f, st, b1), Sheet2(b2)>> :
     k \in 0..NumCols, f \in Fills, st \in StopTails,
     b1 \in BodyValues, b2 \in BodyValues}

\* the workbooks used where the sheet contents play no part
FewWorkbooks ==
  {<<Sheet1(k, IntCell(50), <<IntCell(0), NoneCell>>, b1), Sheet2(b2)>> :
     k \in {2, NumCols}, b1 \in BodyValues, b2 \in BodyValues}

Chars(str) ==
  CASE str = "jan" -> <<"j", "a", "n">> [] str = "fev" -> <<"f", "e", "v">>
    [] str = "feb" -> <<"f", "e", "b">> [] str = "mar" -> <<"m", "a", "r">>
    [] str = "abr" -> <<"a", "b", "r">> [] str = "apr" -> <<"a", "p", "r">>
    [] str = "mai" -> <<"m", "a", "i">> [] str = "may" -> <<"m", "a", "y">>
    [] str = "jun" -> <<"j", "u", "n">> [] str = "jul" -> <<"j", "u", "l">>
    [] str = "ago" -> <<"a", "g", "o">> [] str = "aug" -> <<"a", "u", "g">>
    [] str = "set" -> <<"s", "e", "t">> [] str = "sep" -> <<"s", "e", "p">>
    [] str = "out" -> <<"o", "u", "t">> [] str = "oct" -> <<"o", "c", "t">>
    [] str = "nov" -> <<"n", "o", "v">> [] str = "dez" -> <<"d", "e", "z">>
    [] str = "dec" -> <<"d", "e", "c">>

\* the lines typed at the prompt of main
Lines ==
  {Chars(m) : m \in DOMAIN month_to_col}
    \cup {<<"J", "a", "n">>, <<" ", "D", "E", "Z", " ">>, <<"x", "y", "z">>, <<>>}

Stdins == {[eof |-> FALSE, line |-> l] : l \in Lines} \cup {[eof |-> TRUE, line |-> <<>>]}

\* the month arguments given to /expenses
Months == {"jan", "dez", "xyz"}

\* ---------------------------------------------------------------- state
VARIABLES
  entry,        \* "cli": python excel_work.py;  "bot": python bot.py
  drive,        \* the condition of the remote store
  sheets,       \* <<sheet of SHEET_1, sheet of SHEET_2>> of the remote workbook
  stdin,        \* what input() will return
  pc,           \* where main is
  local_file, last_month, user_month, start_col,
  value_1, value_2, final_value,     \* locals of main; <<>> is None / unbound
  printed,      \* the owes-statements main has printed
  exc,          \* the exception main raised, "none" if none
  calls,        \* the spreadsheet-touching calls main has made, in order
  scan_read,    \* the cells get_last_month read
  sum_read,     \* the cells each read_cells call read
  bpc,          \* where the expenses handler is
  month,        \* its month argument
  handled,      \* number of /expenses commands started
  events        \* what the handler did on the interaction, in order

vars ==
  <<entry, drive, sheets, stdin, pc, local_file, last_month, user_month,
    start_col, value_1, value_2, final_value, printed, exc, calls, scan_read,
    sum_read, bpc, month, handled, events>>

mainVars ==
  <<pc, local_file, last_month, user_month, start_col, value_1, value_2,
    final_value, printed, exc, calls, scan_read, sum_read>>

botVars == <<bpc, month, handled, events>>

envVars == <<entry, drive, sheets, stdin>>

Init ==
  /\ entry \in {"cli", "bot"}
  /\ drive \in DriveStates
  /\ sheets \in (IF entry = "cli" /\ drive = "ok" THEN Workbooks ELSE FewWorkbooks)
  /\ stdin \in (IF entry = "cli" THEN Stdins ELSE {[eof |-> TRUE, line |-> <<>>]})
  /\ pc = "start"
  /\ local_file = <<>>
  /\ last_month = <<>>
  /\ user_month = <<>>
  /\ start_col = <<>>
  /\ value_1 = <<>>
  /\ value_2 = <<>>
  /\ final_value = <<>>
  /\ printed = <<>>
  /\ exc = "none"
  /\ calls = <<>>
  /\ scan_read = {}
  /\ sum_read = <<{}, {}>>
  /\ bpc = "idle"
  /\ month = ""
  /\ handled = 0
  /\ events = <<>>

\* ------------------------------------------------------------------ main
\* local_file = edit_file_workflow(file_id)
MainGetFile ==
  /\ entry = "cli" /\ pc = "start"
  /\ local_file' = edit_file_workflow(drive)
  /\ calls' = Append(calls, "edit_file_workflow")
  /\ pc' = "got_file"
  /\ UNCHANGED <<last_month, user_month, start_col, value_1, value_2,
                 final_value, printed, exc, scan_read, sum_read>>
  /\ UNCHANGED <<envVars, botVars>>

\* last_month = get_last_month(local_file, sheet_1)
MainGetLastMonth ==
  /\ pc = "got_file"
  /\ LET r == get_last_month(local_file, sheets[1])
     IN /\ calls' = Append(calls, "get_last_month")
        /\ scan_read' = r.read
        /\ IF r.exc # "none"
           THEN /\ pc' = "raised" /\ exc' = r.exc
                /\ UNCHANGED last_month
           ELSE /\ pc' = "scanned" /\ last_month' = <<r.col>>
                /\ UNCHANGED exc
  /\ UNCHANGED <<local_file, user_month, start_col, value_1, value_2,
                 final_value, printed, sum_read>>
  /\ UNCHANGED <<envVars, botVars>>

\* the try block: input().lower().strip() and month_to_col.get; when input()
\* raises, the except clause prints and main goes on to return final_value,
\* which is unbound
MainInput ==
  /\ pc = "scanned"
  /\ IF stdin.eof
     THEN /\ pc' = "raised" /\ exc' = "UnboundLocalError"
          /\ UNCHANGED <<user_month, start_col>>
     ELSE /\ user_month' = <<Join(Strip(Lower(stdin.line)))>>
          /\ start_col' = MonthGet(Join(Strip(Lower(stdin.line))))
          /\ pc' = "month"
          /\ UNCHANGED exc
  /\ UNCHANGED <<local_file, last_month, value_1, value_2, final_value,
                 printed, calls, scan_read, sum_read>>
  /\ UNCHANGED <<envVars, botVars>>

\* value_1 = read_cells(local_file, sheet_1, start_col, last_month)
MainReadCells1 ==
  /\ pc = "month"
  /\ LET r == read_cells(local_file, sheets[1], start_col, last_month[1])
     IN /\ calls' = Append(calls, "read_cells")
        /\ sum_read' = [sum_read EXCEPT ![1] = r.read]
        /\ IF r.exc # "none"
           THEN /\ pc' = "raised" /\ exc' = r.exc
                /\ UNCHANGED value_1
           ELSE /\ pc' = "summed_1" /\ value_1' = <<r.total>>
                /\ UNCHANGED exc
  /\ UNCHANGED <<local_file, last_month, user_month, start_col, value_2,
                 final_value, printed, scan_read>>
  /\ UNCHANGED <<envVars, botVars>>

\* value_2 = read_cells(local_file, sheet_2, start_col, last_month)
MainReadCells2 ==
  /\ pc = "summed_1"
  /\ LET r == read_cells(local_file, sheets[2], start_col, last_month[1])
     IN /\ calls' = Append(calls, "read_cells")
        /\ sum_read' = [sum_read EXCEPT ![2] = r.read]
        /\ IF r.exc # "none"
           THEN /\ pc' = "raised" /\ exc' = r.exc
                /\ UNCHANGED value_2
           ELSE /\ pc' = "summed_2" /\ value_2' = <<r.total>>
                /\ UNCHANGED exc
  /\ UNCHANGED <<local_file, last_month, user_month, start_col, value_1,
                 final_value, printed, scan_read>>
  /\ UNCHANGED <<envVars, botVars>>

\* final_value = round(value_1 - value_2, 2), the prints, return final_value
MainBalance ==
  /\ pc = "summed_2"
  /\ final_value' = <<Round2(value_1[1] - value_2[1])>>
  /\ printed' = Statement(Round2(value_1[1] - value_2[1]))
  /\ pc' = "returned"
  /\ UNCHANGED <<local_file, last_month, user_month, start_col, value_1,
                 value_2, exc, calls, scan_read, sum_read>>
  /\ UNCHANGED <<envVars, botVars>>

\* --------------------------------------------------------------- expenses
\* the command arrives; the handler runs to the await of response.defer()
ExpensesDefer ==
  /\ entry = "bot" /\ bpc = "idle" /\ handled < MaxInvocations
  /\ handled' = handled + 1
  /\ \E m \in Months :
       /\ month' = m
       /\ events' = events \o <<Event(handled + 1, "command", "", m),
                                Event(handled + 1, "defer", "", "")>>
  /\ bpc' = "deferred"
  /\ UNCHANGED <<envVars, mainVars>>

\* the try statement: the call, the follow-up, the except clause
ExpensesTry ==
  /\ bpc = "deferred"
  /\ LET t == TryBody(handled, month)
     IN events' = events \o t.events
                    \o (IF t.exc # "none" THEN ExceptClause(handled, t.exc) ELSE <<>>)
  /\ bpc' = "idle"
  /\ UNCHANGED <<month, handled>>
  /\ UNCHANGED <<envVars, mainVars>>

Next ==
  \/ MainGetFile
  \/ MainGetLastMonth
  \/ MainInput
  \/ MainReadCells1
  \/ MainReadCells2
  \/ MainBalance
  \/ ExpensesDefer
  \/ ExpensesTry

Spec == Init /\ [][Next]_vars

TypeOK ==
  /\ pc \in {"start", "got_file", "scanned", "month", "summed_1", "summed_2",
             "returned", "raised"}
  /\ bpc \in {"idle", "deferred"}
  /\ handled \in 0..MaxInvocations

\* ================================================================ claims
Terminated == pc \in {"returned", "raised"}

Recognized(key) == key \in DOMAIN month_to_col

\* the columns range(start, last) covers
Range(start, last) == {c \in Cols : start <= c /\ c < last}

Rect(start, last) == Rows \X Range(start, last)

IsText(cell) == cell.t = "text"

NumericOnly(sheet) == \A rc \in Rows \X Cols : ~IsText(sheet[rc])

EventsOf(i) == SelectSeq(events, LAMBDA e : e.inv = i)

Completed(i) == i < handled \/ bpc = "idle"

CommandMonth(i) == EventsOf(i)[1].detail

Followups(i) == SelectSeq(EventsOf(i), LAMBDA e : e.ev = "followup")

CallsOf(i) == SelectSeq(EventsOf(i), LAMBDA e : e.ev = "call")

\* C1: once main holds a month token that month_to_col does not know, the run
\* has made no spreadsheet access (no fetch, no header scan, no cell read) and
\* does not return normally.
C1_UnknownMonthNoAccess ==
  (user_month # <<>> /\ ~Recognized(user_month[1]))
    => /\ calls = <<>>
       /\ scan_read = {}
       /\ sum_read = <<{}, {}>>
       /\ pc # "returned"

\* C2: for every handled /expenses command whose call of the core raised, the
\* interaction saw the deferral, then one call, then exactly one follow-up,
\* which is an error reply naming the failure; nothing escaped the handler.
C2_FailureCaughtOnce ==
  \A i \in 1..handled :
    (Completed(i) /\ \E k \in 1..Len(CallsOf(i)) : CallsOf(i)[k].kind = "raised")
      => /\ Len(CallsOf(i)) = 1
         /\ Len(Followups(i)) = 1
         /\ Followups(i)[1].kind = "error"
         /\ Followups(i)[1].detail = CallsOf(i)[1].detail
         /\ EventsOf(i)[2].ev = "defer"
         /\ EventsOf(i)[Len(EventsOf(i))].ev = "followup"
         /\ \A k \in 1..Len(EventsOf(i)) : EventsOf(i)[k].ev # "escape"

C2_Witness ==
  /\ handled = MaxInvocations /\ bpc = "idle"
  /\ \A i \in 1..handled :
       /\ CallsOf(i)[1].kind = "raised"
       /\ Followups(i)[1].kind = "error"

\* C3: a handled /expenses command with a recognized month, a retrievable
\* workbook and only numeric or empty cells is answered with the core's result,
\* not with an error.
C3_ResultRelayed ==
  \A i \in 1..handled :
    (/\ Completed(i)
     /\ Recognized(CommandMonth(i))
     /\ drive = "ok"
     /\ NumericOnly(sheets[1]) /\ NumericOnly(sheets[2]))
      => /\ Len(Followups(i)) = 1
         /\ Followups(i)[1].kind = "result"

\* C4: when main has returned, a positive final_value is stated as person 2
\* owing person 1 that amount, and a negative one as person 1 owing person 2
\* its absolute value.
C4_AmountNeverNegative ==
  (pc = "returned" /\ final_value[1] # 0)
    => printed =
         IF final_value[1] > 0
         THEN <<[debtor |-> "Person 2", creditor |-> "Person 1",
                 amount |-> final_value[1]]>>
         ELSE <<[debtor |-> "Person 1", creditor |-> "Person 2",
                 amount |-> Abs(final_value[1])]>>

\* C5: when main has returned with equal totals, the balance is zero and a
\* statement (that nobody owes anything) has been rendered.
C5_ZeroStated ==
  (pc = "returned" /\ value_1 = value_2)
    => final_value = <<0>> /\ printed # <<>>

\* the header cells the claim calls stopping: empty, or spelling "0" once
\* surrounding blanks are removed
SpellsZero(s) ==
  \E i \in 1..Len(s) :
    s[i] = "0" /\ \A j \in 1..Len(s) : j # i => s[j] \in Whitespace

HeaderStop(cell) ==
  \/ cell.t = "none"
  \/ cell.t = "int" /\ cell.n = 0
  \/ cell.t = "text" /\ SpellsZero(cell.s)

StopCols(sheet) == {c \in Cols : HeaderStop(sheet[<<HeaderRow, c>>])}

ExampleHeader(sheet) ==
  /\ sheet[<<HeaderRow, 3>>] = IntCell(100)
  /\ sheet[<<HeaderRow, 4>>] = IntCell(50)
  /\ sheet[<<HeaderRow, 5>>] = IntCell(0)
  /\ sheet[<<HeaderRow, 6>>] = NoneCell

\* C6: get_last_month returns the smallest column from 3 on whose row-16 cell
\* is empty or has the trimmed string form "0", and 14 when no column stops
\* the scan; the header 100, 50, 0, None gives 5.
C6_LastColumn ==
  last_month # <<>>
    => /\ IF StopCols(sheets[1]) = {}
          THEN last_month[1] = 14
          ELSE /\ last_month[1] \in StopCols(sheets[1])
               /\ \A c \in StopCols(sheets[1]) : last_month[1] <= c
       /\ ExampleHeader(sheets[1]) => last_month[1] = 5

C6_Witness ==
  /\ last_month = <<5>>
  /\ ExampleHeader(sheets[1])

RECURSIVE SetSum(_, _)
SetSum(sheet, cells) ==
  IF cells = {} THEN 0
  ELSE LET rc == CHOOSE x \in cells : TRUE
       IN (IF sheet[rc].t \in {"int", "float"} THEN sheet[rc].n ELSE 0)
            + SetSum(sheet, cells \ {rc})

C8_TextCellNoCrash ==
  (/\ start_col # <<>> /\ last_month # <<>>
   /\ \E i \in 1..2 : \E rc \in Rect(start_col[1], last_month[1]) :
        IsText(sheets[i][rc]) /\ sheets[i][rc].s # <<>>)
    => ~(pc = "raised" /\ exc = "TypeError")

\* C9: when the spreadsheet cannot be acquired, main ends with a remote-access
\* error and has not gone on to get_last_month or read_cells.
C9_RemoteFailureSurfaced ==
  (drive # "ok" /\ Terminated)
    => /\ pc = "raised"
       /\ exc = "RemoteAccessFailure"
       /\ calls = <<"edit_file_workflow">>

AllMonthsHaveData(sheet) ==
  \A c \in Cols :
    /\ sheet[<<HeaderRow, c>>].t \in {"int", "float"}
    /\ sheet[<<HeaderRow, c>>].n # 0

\* C10: when every month column of the header holds non-zero data and main has
\* returned, each participant's sum covered the columns from the start column
\* through column 14.
C10_DecemberSummed ==
  (pc = "returned" /\ AllMonthsHaveData(sheets[1]))
    => \A i \in 1..2 :
         {rc[2] : rc \in sum_read[i]} = start_col[1]..LastCol

====
